---- MODULE Spec2Model ----
\* Model of the planico block mutation coordinator (hooks/useScheduleBlocks.ts),
\* the page handlers that drive it (app/page.tsx) and the schedule API routes
\* it talks to (app/api/schedule), where time is counted in whole days; day 0
\* is a Sunday, so a week is the days 7k .. 7k+6. The pure functions of
\* lib/conflict-checker.ts and lib/utils.ts are modelled on minutes.
EXTENDS Integers, Sequences, FiniteSets, TLC

\* ---------------------------------------------------------------- bounds
MaxOps == 3        \* calls of the coordinator's operations over a run
MaxInFlight == 2   \* requests awaiting their response at one time
MaxClock == 1      \* the clock runs 0 .. MaxClock
MaxWeek == 1       \* weeks 0 .. MaxWeek can be displayed

DaysPerWeek == 7

\* ---------------------------------------------------------------- values
Null == "null"
NoStart == -1
NoId == <<"none", 0>>
MissingId == <<"id", 0>>
Titles == {"a", "b"}
CreateTimes == {<<2, 3>>}
InitialWeekDate == 2

TempId(t) == <<"temp", t>>
ServerId(n) == <<"id", n>>
IsTempId(id) == id[1] = "temp"

MsgNotFound == "Bloque no encontrado"
MsgConflict == "El bloque se superpone con otro bloque existente"
MsgNetwork == "Failed to fetch"
MsgBadId == "ID tiene formato invalido"

InitialBlock ==
  [id |-> ServerId(1), title |-> "a", startTime |-> 1, endTime |-> 2,
   category |-> "cat", updatedAt |-> 0]

NoData == [title |-> "a", startTime |-> NoStart, endTime |-> NoStart]

\* ---------------------------------------------------------------- helpers
startOfWeek(d) == d - (d % DaysPerWeek)
endOfWeek(d) == startOfWeek(d) + (DaysPerWeek - 1)

navigateWeek(currentDate, direction) ==
  currentDate + (IF direction = "next" THEN DaysPerWeek ELSE 0 - DaysPerWeek)

Range(s) == {s[i] : i \in 1..Len(s)}
Ids(s) == {s[i].id : i \in 1..Len(s)}
Count(s, id) == Cardinality({i \in 1..Len(s) : s[i].id = id})

RECURSIVE Filter(_, _)
\* prev.filter(block => block.id !== id)
Filter(s, id) ==
  IF s = <<>> THEN <<>>
  ELSE IF Head(s).id = id THEN Filter(Tail(s), id)
       ELSE <<Head(s)>> \o Filter(Tail(s), id)

\* blocks.find(block => block.id === id), as a sequence of length 0 or 1
Find(s, id) ==
  IF id \in Ids(s)
  THEN <<s[CHOOSE i \in 1..Len(s) : s[i].id = id /\ \A j \in 1..(i-1) : s[j].id # id]>>
  ELSE <<>>

RECURSIVE SortByStart(_)
\* orderBy: { startTime: 'asc' }
SortByStart(S) ==
  IF S = {} THEN <<>>
  ELSE LET m == CHOOSE b \in S : \A c \in S : b.startTime <= c.startTime
       IN <<m>> \o SortByStart(S \ {m})

\* ---------------------------------------------------------------- collection edits
\* as FetchApply, without the check of the abort signal
FetchApplyNoCheck(aborted, prev, fetched) == fetched

\* fetchBlocks: if (!abortController.signal.aborted) setBlocks(fetchedBlocks)
FetchApply(aborted, prev, fetched) == IF ~aborted THEN fetched ELSE prev

\* as FetchCatchError, without recording the message
FetchCatchErrorSilent(aborted, err, msg) == err

\* fetchBlocks catch: if (!aborted) setError(handleApiError(err))
FetchCatchError(aborted, err, msg) == IF ~aborted THEN msg ELSE err

\* as FetchFinallyLoading, without the check of the abort signal
FetchFinallyLoadingAlways(aborted, loading) == FALSE

\* fetchBlocks finally: if (!aborted) setIsLoading(false)
FetchFinallyLoading(aborted, loading) == IF ~aborted THEN FALSE ELSE loading

\* createBlock: the provisional entry
OptimisticBlock(data, t) ==
  [id |-> TempId(t), title |-> data.title, startTime |-> data.startTime,
   endTime |-> data.endTime, category |-> "Loading...", updatedAt |-> t]

\* createBlock, success branch
CreateCommit(opt, prev, tempId, newBlock) ==
  IF opt
  THEN [i \in 1..Len(prev) |-> IF prev[i].id = tempId THEN newBlock ELSE prev[i]]
  ELSE Append(prev, newBlock)

\* as CreateRevert, leaving the provisional entry in place
CreateRevertKeep(opt, prev, tempId) == prev

\* createBlock, catch branch
CreateRevert(opt, prev, tempId) == IF opt THEN Filter(prev, tempId) ELSE prev

\* { ...block, ...data, updatedAt: new Date() }
Merge(block, data, t) ==
  [block EXCEPT !.title = data.title,
                !.startTime = IF data.startTime = NoStart THEN @ ELSE data.startTime,
                !.endTime = IF data.endTime = NoStart THEN @ ELSE data.endTime,
                !.updatedAt = t]

\* updateBlock, optimistic update
UpdateMerge(opt, prev, id, data, t) ==
  IF opt
  THEN [i \in 1..Len(prev) |-> IF prev[i].id = id THEN Merge(prev[i], data, t) ELSE prev[i]]
  ELSE prev

\* as UpdateCommit, keeping the local entry
UpdateCommitKeep(prev, id, updatedBlock) == prev

\* updateBlock, success branch
UpdateCommit(prev, id, updatedBlock) ==
  [i \in 1..Len(prev) |-> IF prev[i].id = id THEN updatedBlock ELSE prev[i]]

\* as UpdateRevert, restoring the edited field but not the timestamp
UpdateRevertTitleOnly(opt, prev, id, originalBlock) ==
  IF opt
  THEN [i \in 1..Len(prev) |->
          IF prev[i].id = id THEN [prev[i] EXCEPT !.title = originalBlock.title] ELSE prev[i]]
  ELSE prev

\* updateBlock, catch branch
UpdateRevert(opt, prev, id, originalBlock) ==
  IF opt
  THEN [i \in 1..Len(prev) |-> IF prev[i].id = id THEN originalBlock ELSE prev[i]]
  ELSE prev

\* deleteBlock, optimistic update
DeleteRemove(opt, prev, id) == IF opt THEN Filter(prev, id) ELSE prev

\* deleteBlock, success branch
DeleteCommit(opt, prev, id) == IF ~opt THEN Filter(prev, id) ELSE prev

\* as DeleteRevert, reinserting at the front
DeleteRevertFront(opt, prev, originalBlock) ==
  IF opt THEN <<originalBlock>> \o prev ELSE prev

\* deleteBlock, catch branch
DeleteRevert(opt, prev, originalBlock) ==
  IF opt THEN Append(prev, originalBlock) ELSE prev

\* ---------------------------------------------------------------- lib/ time
\* The functions of lib/conflict-checker.ts and lib/utils.ts work on Date
\* values. A Date is modelled as the minutes elapsed since 00:00 of a Sunday,
\* in the one display zone; the wall-clock fields are computed from it.
MinutesPerHour == 60
HoursPerDay == 24
MinutesPerDay == MinutesPerHour * HoursPerDay
SlotMinutes == 30

getHours(t) == (t \div MinutesPerHour) % HoursPerDay
getMinutes(t) == t % MinutesPerHour
\* the calendar date (getFullYear, getMonth, getDate) as a day number
DateOf(t) == t \div MinutesPerDay
\* getDay(): 0 is Sunday
getDay(t) == DateOf(t) % DaysPerWeek
\* date.setHours(h, 0, 0, 0)
setHours(t, h) == (DateOf(t) * MinutesPerDay) + (h * MinutesPerHour)
\* format(date, 'HH:mm'): the date is not part of the text
format(t) == <<getHours(t), getMinutes(t)>>

\* ---------------------------------------------------------------- conflicts
NoExclude == <<"none", 0>>

\* as areIntervalsOverlapping, with touching intervals counted
areIntervalsOverlappingInclusive(left, right) ==
  left.start <= right.end /\ right.start <= left.end

\* areIntervalsOverlapping(left, right, { inclusive: false }) of date-fns
areIntervalsOverlapping(left, right) ==
  left.start < right.end /\ right.start < left.end

RECURSIVE FilterConflicts(_, _, _)
\* existingBlocks.filter(block => ...) of checkForConflicts
FilterConflicts(newBlock, s, excludeBlockId) ==
  IF s = <<>> THEN <<>>
  ELSE LET block == Head(s)
           rest == FilterConflicts(newBlock, Tail(s), excludeBlockId)
       IN IF excludeBlockId # NoExclude /\ block.id = excludeBlockId THEN rest
          ELSE IF areIntervalsOverlapping(
                    [start |-> newBlock.startTime, end |-> newBlock.endTime],
                    [start |-> block.startTime, end |-> block.endTime])
               THEN <<block>> \o rest
               ELSE rest

\* `Mover antes de "${title}" (terminar a las ${format(conflictStart, 'HH:mm')})`
MoverAntes(conflict) == <<"antes", conflict.title, format(conflict.startTime)>>
\* `Mover después de "${title}" (comenzar a las ${format(conflictEnd, 'HH:mm')})`
MoverDespues(conflict) == <<"despues", conflict.title, format(conflict.endTime)>>

RECURSIVE PushSuggestions(_, _)
\* conflictingBlocks.forEach(conflict => ...) of generateSuggestions
PushSuggestions(newBlock, s) ==
  IF s = <<>> THEN <<>>
  ELSE LET conflict == Head(s)
       IN (IF conflict.startTime > newBlock.startTime
           THEN <<MoverAntes(conflict)>> ELSE <<>>)
          \o (IF conflict.endTime < newBlock.endTime
              THEN <<MoverDespues(conflict)>> ELSE <<>>)
          \o PushSuggestions(newBlock, Tail(s))

\* as SpreadSet, every pushed text kept
SpreadSetKeepAll(s, seen) == s

RECURSIVE SpreadSet(_, _)
\* [...new Set(suggestions)]: a Set keeps insertion order and ignores an add
\* of a value it holds
SpreadSet(s, seen) ==
  IF s = <<>> THEN <<>>
  ELSE IF Head(s) \in seen THEN SpreadSet(Tail(s), seen)
       ELSE <<Head(s)>> \o SpreadSet(Tail(s), seen \cup {Head(s)})

generateSuggestions(newBlock, conflictingBlocks) ==
  SpreadSet(PushSuggestions(newBlock, conflictingBlocks), {})

checkForConflicts(newBlock, existing, excludeBlockId) ==
  LET conflictingBlocks == FilterConflicts(newBlock, existing, excludeBlockId)
      hasConflict == Len(conflictingBlocks) > 0
  IN [hasConflict |-> hasConflict,
      conflictingBlocks |-> conflictingBlocks,
      suggestions |-> IF hasConflict
                      THEN generateSuggestions(newBlock, conflictingBlocks)
                      ELSE <<>>]

\* ---------------------------------------------------------------- free slots
NoSlot == -1
DefaultWorkingHours == [start |-> 8, end |-> 18]

RECURSIVE SortByStartTime(_)
\* [...existingBlocks].sort((a, b) => a.startTime - b.startTime): stable
SortByStartTime(s) ==
  IF s = <<>> THEN <<>>
  ELSE LET i == CHOOSE k \in 1..Len(s) :
                  /\ \A j \in 1..Len(s) : s[k].startTime <= s[j].startTime
                  /\ \A j \in 1..(k - 1) : s[j].startTime # s[k].startTime
       IN <<s[i]>> \o SortByStartTime(SubSeq(s, 1, i - 1) \o SubSeq(s, i + 1, Len(s)))

\* the hour clamp before the sweep
ClampToWorkingHours(preferredStart, workingHours) ==
  IF getHours(preferredStart) < workingHours.start
  THEN setHours(preferredStart, workingHours.start)
  ELSE preferredStart

RECURSIVE Sweep(_, _, _)
\* for (const block of sortedBlocks) { ... }: returned is TRUE when the loop
\* returned currentTime, FALSE when it ran to its end
Sweep(sortedBlocks, currentTime, duration) ==
  IF sortedBlocks = <<>> THEN [returned |-> FALSE, currentTime |-> currentTime]
  ELSE LET block == Head(sortedBlocks)
           proposedEnd == currentTime + duration
       IN IF proposedEnd <= block.startTime
          THEN [returned |-> TRUE, currentTime |-> currentTime]
          ELSE Sweep(Tail(sortedBlocks), block.endTime, duration)

findNextAvailableSlot(duration, preferredStart, existing, workingHours) ==
  LET sortedBlocks == SortByStartTime(existing)
      swept == Sweep(sortedBlocks,
                     ClampToWorkingHours(preferredStart, workingHours), duration)
      proposedEnd == swept.currentTime + duration
  IN IF swept.returned THEN swept.currentTime
     ELSE IF getHours(proposedEnd) <= workingHours.end THEN swept.currentTime
          ELSE NoSlot

\* ---------------------------------------------------------------- the grid
Min(a, b) == IF a < b THEN a ELSE b
Max(a, b) == IF a > b THEN a ELSE b

\* as getTimeSlot, the day offset taken as it comes
getTimeSlotUnclamped(date, weekStart) ==
  [day |-> (date - weekStart) \div MinutesPerDay,
   hour |-> getHours(date),
   minute |-> IF getMinutes(date) >= SlotMinutes THEN SlotMinutes ELSE 0]

\* getTimeSlot(date, weekStart)
getTimeSlot(date, weekStart) ==
  [day |-> Max(0, Min(DaysPerWeek - 1, (date - weekStart) \div MinutesPerDay)),
   hour |-> getHours(date),
   minute |-> IF getMinutes(date) >= SlotMinutes THEN SlotMinutes ELSE 0]

SlotIndex(slot) == (slot.hour * 2) + (IF slot.minute = SlotMinutes THEN 1 ELSE 0)

\* calculateGridPosition(block, weekStart)
calculateGridPosition(block, weekStart) ==
  LET startSlot == getTimeSlot(block.startTime, weekStart)
      endSlot == getTimeSlot(block.endTime, weekStart)
  IN [column |-> startSlot.day + 1,
      row |-> SlotIndex(startSlot) + 1,
      span |-> Max(1, SlotIndex(endSlot) - SlotIndex(startSlot))]

\* getWeekStart(date): d.setDate(d.getDate() - d.getDay()) moves the date
\* back to Sunday and leaves the time of day as it was
getWeekStart(date) == date - (getDay(date) * MinutesPerDay)

\* timeSlotToDate(slot, weekStart): setDate moves the day, setHours(hour,
\* minute, 0, 0) replaces the time of day
timeSlotToDate(slot, weekStart) ==
  ((DateOf(weekStart) + slot.day) * MinutesPerDay)
    + (slot.hour * MinutesPerHour) + slot.minute

\* as roundedMinutes, the middle of the hour rounded to a quarter to
roundedMinutesLate(minutes) ==
  IF minutes < 15 THEN 0 ELSE IF minutes < 45 THEN 45 ELSE 0

\* const roundedMinutes = minutes < 15 ? 0 : minutes < 45 ? 30 : 0
roundedMinutes(minutes) ==
  IF minutes < 15 THEN 0 ELSE IF minutes < 45 THEN 30 ELSE 0

\* as hourAdjustment, the hour never advanced
hourAdjustmentNone(minutes) == 0

\* const hourAdjustment = minutes >= 45 ? 1 : 0
hourAdjustment(minutes) == IF minutes >= 45 THEN 1 ELSE 0

\* roundToTimeSlot(date), on a Date with its seconds: [t |-> minutes, sec |->
\* seconds within the minute]. setHours(24) of 23:xx is 00:xx of the next day.
roundToTimeSlot(date) ==
  LET minutes == getMinutes(date.t)
      afterSetMinutes == (date.t - minutes) + roundedMinutes(minutes)
  IN [t |-> afterSetMinutes + (hourAdjustment(minutes) * MinutesPerHour),
      sec |-> 0]

\* isSameWeek(date1, date2)
isSameWeek(date1, date2) == getWeekStart(date1) = getWeekStart(date2)

\* ---------------------------------------------------------------- RateLimiter
ReadLimit == 100
WriteLimit == 50
WindowMs == 60000
\* the clock of the server advances in steps of TickMs milliseconds
TickMs == 30000

\* RateLimiter.check(identifier, limit, windowMs) for the one identifier:
\* the answer and the entry of RateLimiter.requests after the call
RateLimiterCheck(requests, nowMs, limit, windowMs) ==
  IF requests.resetTime = -1 \/ nowMs > requests.resetTime
  THEN [ok |-> TRUE,
        requests |-> [requests EXCEPT !.count = 1, !.resetTime = nowMs + windowMs]]
  ELSE IF requests.count >= limit
       THEN [ok |-> FALSE, requests |-> requests]
       ELSE [ok |-> TRUE, requests |-> [requests EXCEPT !.count = @ + 1]]

\* the limit a route passes: 100 in the GET handlers, 50 in POST, PUT, DELETE
LimitOf(method) == IF method = "GET" THEN ReadLimit ELSE WriteLimit

\* history: the reads and writes accepted since the window of the entry began
Admitted(requests, nowMs, method) ==
  LET c == RateLimiterCheck(requests, nowMs, LimitOf(method), WindowMs)
      fresh == requests.resetTime = -1 \/ nowMs > requests.resetTime
      reads == IF fresh THEN 0 ELSE requests.reads
      writes == IF fresh THEN 0 ELSE requests.writes
  IN [ok |-> c.ok,
      readsBefore |-> reads,
      writesBefore |-> writes,
      requests |-> [c.requests EXCEPT
                      !.reads = reads + (IF c.ok /\ method = "GET" THEN 1 ELSE 0),
                      !.writes = writes + (IF c.ok /\ method # "GET" THEN 1 ELSE 0)]]

\* the latest call of a lib/ function: nothing called yet
NoCall == [fn |-> "none"]

\* RateLimiter.requests has no entry for the client
NoWindow == [count |-> 0, resetTime |-> -1, reads |-> 0, writes |-> 0]

\* the block form, not shown
ClosedForm ==
  [isOpen |-> FALSE, isSubmitting |-> FALSE, submitError |-> FALSE,
   editingBlock |-> NoId, formData |-> NoData, onCancel |-> FALSE]

\* ---------------------------------------------------------------- state
VARIABLES
  blocks,                  \* useState<ScheduleBlock[]>
  isLoading,               \* useState(false)
  error,                   \* useState<string | null>
  currentWeekRef,          \* useRef<Date>(weekDate)
  abortControllerRef,      \* Null, or "held": the controller of the latest fetch
  enableOptimisticUpdates, \* the hook's option
  weekDate,                \* weekGrid.currentWeek of the page
  store,                   \* rows of the scheduleBlock table
  nextId,                  \* next id the table hands out
  now,                     \* the clock (Date.now(), new Date(), @updatedAt)
  ops,                     \* requests in flight, in the order they were issued
  nOps,                    \* history: calls made so far
  acked,                   \* history: blocks as last acknowledged by the server
  last,                    \* history: what the latest step did
  existingBlocks,          \* the blocks a lib/ function is called with
  ret,                     \* the latest call of a lib/ function and its result
  handlers,                \* route handlers of the API between two awaits
  limiter,                 \* RateLimiter.requests, for the one client address
  form                     \* the page's block form

vars == <<blocks, isLoading, error, currentWeekRef, abortControllerRef,
          enableOptimisticUpdates, weekDate, store, nextId, now, ops, nOps,
          acked, last, existingBlocks, ret, handlers, limiter, form>>

NoOp ==
  [kind |-> "none", id |-> NoId, data |-> NoData, target |-> 0,
   phase |-> "none", ok |-> FALSE, res |-> <<>>, msg |-> Null,
   aborted |-> FALSE, orig |-> <<>>, pre |-> <<>>, alone |-> FALSE,
   nav |-> FALSE]

Step(kind, outcome, op) == [kind |-> kind, outcome |-> outcome, op |-> op]

\* a step of the clock or of an API route: nothing the caller sees ends
Quiet == Step("none", "none", NoOp)

HookInit ==
  /\ blocks = <<>>
  /\ isLoading = FALSE
  /\ error = Null
  /\ weekDate = InitialWeekDate
  /\ currentWeekRef = InitialWeekDate
  /\ abortControllerRef = Null
  /\ enableOptimisticUpdates \in BOOLEAN
  /\ store = {InitialBlock}
  /\ nextId = 2
  /\ now = 0
  /\ ops = <<>>
  /\ nOps = 0
  /\ acked = {}
  /\ last = Quiet

\* the coordinator after construction; no lib/ function called
Init ==
  /\ HookInit
  /\ existingBlocks = <<>>
  /\ ret = NoCall
  /\ handlers = <<>>
  /\ limiter = NoWindow
  /\ form = ClosedForm

Pending == DOMAIN ops

CanIssue == nOps < MaxOps /\ Len(ops) < MaxInFlight

\* a new request joins the ones in flight; it runs alone iff none is in flight
Issue(r, others) ==
  Append([u \in Pending |-> [others[u] EXCEPT !.alone = FALSE, !.pre = <<>>]],
         [r EXCEPT !.alone = (Pending = {}), !.pre = blocks])

Remove(u) == [v \in 1..(Len(ops) - 1) |-> IF v < u THEN ops[v] ELSE ops[v + 1]]

\* ---------------------------------------------------------------- the clock
\* a reading of Date.now() / new Date(): not before the previous reading
ClockReadings == {t \in now..(now + 1) : t <= MaxClock}

\* ---------------------------------------------------------------- fetch
\* fetchBlocks(targetDate) up to the await
FetchIssue(targetDate, nav) ==
  /\ CanIssue
  /\ LET aborted == [u \in Pending |->
                       IF ops[u].kind = "fetch" /\ abortControllerRef # Null
                       THEN [ops[u] EXCEPT !.aborted = TRUE] ELSE ops[u]]
         r == [NoOp EXCEPT !.kind = "fetch", !.target = targetDate,
                           !.phase = "sent", !.nav = nav]
     IN /\ ops' = Issue(r, aborted)
        /\ last' = Quiet
  /\ abortControllerRef' = "held"
  /\ nOps' = nOps + 1
  /\ isLoading' = TRUE
  /\ error' = Null
  /\ UNCHANGED <<existingBlocks, ret, handlers, limiter, blocks, currentWeekRef, enableOptimisticUpdates, store,
                 nextId, now, acked>>

\* refetch(): fetchBlocks(currentWeekRef.current); the page calls it on mount
\* and from handleRefresh
Refetch ==
  /\ FetchIssue(currentWeekRef, FALSE)
  /\ UNCHANGED weekDate

\* navigateWeek / goToWeek of useWeekGrid, then the page's effect on
\* weekGrid.currentWeek, which calls refetch()
NavigateWeek(direction) ==
  LET newWeek == navigateWeek(weekDate, direction)
  IN /\ newWeek >= 0
     /\ newWeek < (MaxWeek + 1) * DaysPerWeek
     /\ weekDate' = newWeek
     /\ FetchIssue(currentWeekRef, TRUE)

\* fetchBlocks after the await, request fulfilled
FetchResolved(u) ==
  /\ u \in Pending
  /\ ops[u].kind = "fetch" /\ ops[u].phase = "replied" /\ ops[u].ok
  /\ blocks' = FetchApply(ops[u].aborted, blocks, ops[u].res)
  /\ currentWeekRef' = IF ~ops[u].aborted THEN ops[u].target ELSE currentWeekRef
  /\ isLoading' = FetchFinallyLoading(ops[u].aborted, isLoading)
  /\ acked' = IF ~ops[u].aborted THEN Range(ops[u].res) ELSE acked
  /\ ops' = Remove(u)
  /\ last' = Step("fetch", "ok", ops[u])
  /\ UNCHANGED <<existingBlocks, ret, handlers, limiter, error, abortControllerRef, enableOptimisticUpdates, weekDate,
                 store, nextId, now, nOps>>

\* fetchBlocks after the await, request rejected
FetchRejected(u) ==
  /\ u \in Pending
  /\ ops[u].kind = "fetch" /\ ops[u].phase = "replied" /\ ~ops[u].ok
  /\ error' = FetchCatchError(ops[u].aborted, error, ops[u].msg)
  /\ isLoading' = FetchFinallyLoading(ops[u].aborted, isLoading)
  /\ ops' = Remove(u)
  /\ last' = Step("fetch", "fail", ops[u])
  /\ UNCHANGED <<existingBlocks, ret, handlers, limiter, blocks, currentWeekRef, abortControllerRef,
                 enableOptimisticUpdates, weekDate, store, nextId, now, nOps, acked>>

\* ---------------------------------------------------------------- create
CreateData == {[title |-> "a", startTime |-> t[1], endTime |-> t[2]] : t \in CreateTimes}
UpdateData == {[title |-> t, startTime |-> NoStart, endTime |-> NoStart] : t \in Titles}

\* createBlock(data) up to the await
CreateBlock(data, t) ==
  /\ CanIssue
  /\ t \in ClockReadings
  /\ now' = IF enableOptimisticUpdates THEN t ELSE now
  /\ LET ob == OptimisticBlock(data, now')
         r == [NoOp EXCEPT !.kind = "create", !.data = data, !.phase = "sent",
                           !.id = IF enableOptimisticUpdates THEN ob.id ELSE NoId,
                           !.orig = IF enableOptimisticUpdates THEN <<ob>> ELSE <<>>]
     IN /\ blocks' = IF enableOptimisticUpdates THEN Append(blocks, ob) ELSE blocks
        /\ ops' = Issue(r, ops)
        /\ last' = Quiet
  /\ error' = Null
  /\ nOps' = nOps + 1
  /\ UNCHANGED <<existingBlocks, ret, handlers, limiter, isLoading, currentWeekRef, abortControllerRef,
                 enableOptimisticUpdates, weekDate, store, nextId, acked>>

\* createBlock after the await, request fulfilled
CreateResolved(u) ==
  /\ u \in Pending
  /\ ops[u].kind = "create" /\ ops[u].phase = "replied" /\ ops[u].ok
  /\ blocks' = CreateCommit(enableOptimisticUpdates /\ ops[u].orig # <<>>,
                            blocks, ops[u].id, ops[u].res[1])
  /\ acked' = {b \in acked : b.id # ops[u].res[1].id} \cup {ops[u].res[1]}
  /\ ops' = Remove(u)
  /\ last' = Step("create", "ok", ops[u])
  /\ UNCHANGED <<existingBlocks, ret, handlers, limiter, isLoading, error, currentWeekRef, abortControllerRef,
                 enableOptimisticUpdates, weekDate, store, nextId, now, nOps>>

\* createBlock after the await, request rejected
CreateRejected(u) ==
  /\ u \in Pending
  /\ ops[u].kind = "create" /\ ops[u].phase = "replied" /\ ~ops[u].ok
  /\ blocks' = CreateRevert(enableOptimisticUpdates /\ ops[u].orig # <<>>,
                            blocks, ops[u].id)
  /\ error' = ops[u].msg
  /\ ops' = Remove(u)
  /\ last' = Step("create", "fail", ops[u])
  /\ UNCHANGED <<existingBlocks, ret, handlers, limiter, isLoading, currentWeekRef, abortControllerRef,
                 enableOptimisticUpdates, weekDate, store, nextId, now, nOps, acked>>

\* ---------------------------------------------------------------- update
\* ids a caller can pass: those on screen, and one that is on no screen
CallerIds == Ids(blocks) \cup {MissingId}

\* updateBlock(id, data) when blocks.find(...) finds nothing: throws
UpdateNotFound(id, data) ==
  /\ nOps < MaxOps
  /\ Find(blocks, id) = <<>>
  /\ error' = Null
  /\ nOps' = nOps + 1
  /\ last' = Step("update", "rejected",
                  [NoOp EXCEPT !.kind = "update", !.id = id, !.msg = MsgNotFound])
  /\ UNCHANGED <<existingBlocks, ret, handlers, limiter, blocks, isLoading, currentWeekRef, abortControllerRef,
                 enableOptimisticUpdates, weekDate, store, nextId, now, ops,
                 acked>>

\* updateBlock(id, data) up to the await
UpdateBlock(id, data, t) ==
  /\ CanIssue
  /\ Find(blocks, id) # <<>>
  /\ t \in ClockReadings
  /\ now' = IF enableOptimisticUpdates THEN t ELSE now
  /\ LET r == [NoOp EXCEPT !.kind = "update", !.id = id, !.data = data,
                           !.phase = "sent", !.orig = Find(blocks, id)]
     IN /\ ops' = Issue(r, ops)
        /\ last' = Quiet
  /\ blocks' = UpdateMerge(enableOptimisticUpdates, blocks, id, data, now')
  /\ error' = Null
  /\ nOps' = nOps + 1
  /\ UNCHANGED <<existingBlocks, ret, handlers, limiter, isLoading, currentWeekRef, abortControllerRef,
                 enableOptimisticUpdates, weekDate, store, nextId, acked>>

\* updateBlock after the await, request fulfilled
UpdateResolved(u) ==
  /\ u \in Pending
  /\ ops[u].kind = "update" /\ ops[u].phase = "replied" /\ ops[u].ok
  /\ blocks' = UpdateCommit(blocks, ops[u].id, ops[u].res[1])
  /\ acked' = {IF b.id = ops[u].id THEN ops[u].res[1] ELSE b : b \in acked}
  /\ ops' = Remove(u)
  /\ last' = Step("update", "ok", ops[u])
  /\ UNCHANGED <<existingBlocks, ret, handlers, limiter, isLoading, error, currentWeekRef, abortControllerRef,
                 enableOptimisticUpdates, weekDate, store, nextId, now, nOps>>

\* updateBlock after the await, request rejected
UpdateRejected(u) ==
  /\ u \in Pending
  /\ ops[u].kind = "update" /\ ops[u].phase = "replied" /\ ~ops[u].ok
  /\ blocks' = UpdateRevert(enableOptimisticUpdates, blocks, ops[u].id, ops[u].orig[1])
  /\ error' = ops[u].msg
  /\ ops' = Remove(u)
  /\ last' = Step("update", "fail", ops[u])
  /\ UNCHANGED <<existingBlocks, ret, handlers, limiter, isLoading, currentWeekRef, abortControllerRef,
                 enableOptimisticUpdates, weekDate, store, nextId, now, nOps, acked>>

\* ---------------------------------------------------------------- delete
\* deleteBlock(id) when blocks.find(...) finds nothing: throws
DeleteNotFound(id) ==
  /\ nOps < MaxOps
  /\ Find(blocks, id) = <<>>
  /\ error' = Null
  /\ nOps' = nOps + 1
  /\ last' = Step("delete", "rejected",
                  [NoOp EXCEPT !.kind = "delete", !.id = id, !.msg = MsgNotFound])
  /\ UNCHANGED <<existingBlocks, ret, handlers, limiter, blocks, isLoading, currentWeekRef, abortControllerRef,
                 enableOptimisticUpdates, weekDate, store, nextId, now, ops,
                 acked>>

\* deleteBlock(id) up to the await
DeleteBlock(id) ==
  /\ CanIssue
  /\ Find(blocks, id) # <<>>
  /\ LET r == [NoOp EXCEPT !.kind = "delete", !.id = id, !.phase = "sent",
                           !.orig = Find(blocks, id)]
     IN /\ ops' = Issue(r, ops)
        /\ last' = Quiet
  /\ blocks' = DeleteRemove(enableOptimisticUpdates, blocks, id)
  /\ error' = Null
  /\ nOps' = nOps + 1
  /\ UNCHANGED <<existingBlocks, ret, handlers, limiter, isLoading, currentWeekRef, abortControllerRef,
                 enableOptimisticUpdates, weekDate, store, nextId, now, acked>>

\* deleteBlock after the await, request fulfilled
DeleteResolved(u) ==
  /\ u \in Pending
  /\ ops[u].kind = "delete" /\ ops[u].phase = "replied" /\ ops[u].ok
  /\ blocks' = DeleteCommit(enableOptimisticUpdates, blocks, ops[u].id)
  /\ acked' = {b \in acked : b.id # ops[u].id}
  /\ ops' = Remove(u)
  /\ last' = Step("delete", "ok", ops[u])
  /\ UNCHANGED <<existingBlocks, ret, handlers, limiter, isLoading, error, currentWeekRef, abortControllerRef,
                 enableOptimisticUpdates, weekDate, store, nextId, now, nOps>>

\* deleteBlock after the await, request rejected
DeleteRejected(u) ==
  /\ u \in Pending
  /\ ops[u].kind = "delete" /\ ops[u].phase = "replied" /\ ~ops[u].ok
  /\ blocks' = DeleteRevert(enableOptimisticUpdates, blocks, ops[u].orig[1])
  /\ error' = ops[u].msg
  /\ ops' = Remove(u)
  /\ last' = Step("delete", "fail", ops[u])
  /\ UNCHANGED <<existingBlocks, ret, handlers, limiter, isLoading, currentWeekRef, abortControllerRef,
                 enableOptimisticUpdates, weekDate, store, nextId, now, nOps, acked>>

\* ---------------------------------------------------------------- the API routes
Reply(u, ok, res, msg) ==
  [ops EXCEPT ![u] = [@ EXCEPT !.phase = "replied", !.ok = ok, !.res = res, !.msg = msg]]

ServerUnchanged ==
  UNCHANGED <<existingBlocks, ret, handlers, limiter, blocks, isLoading, error, currentWeekRef, abortControllerRef,
              enableOptimisticUpdates, weekDate, now, nOps, acked>>

\* where: { startTime: { gte: weekStart, lte: weekEnd } }
InWeek(S, date) ==
  {b \in S : b.startTime >= startOfWeek(date) /\ b.startTime <= endOfWeek(date)}

\* where: { startTime: { lt: endTime }, endTime: { gt: startTime } }
Overlapping(S, startTime, endTime) ==
  {b \in S : b.startTime < endTime /\ b.endTime > startTime}

\* GET /api/schedule?date=<startOfWeek(targetDate)>
ServerGet(u) ==
  /\ u \in Pending /\ ops[u].kind = "fetch" /\ ops[u].phase = "sent"
  /\ ops' = Reply(u, TRUE, SortByStart(InWeek(store, startOfWeek(ops[u].target))), Null)
  /\ last' = Quiet
  /\ UNCHANGED <<existingBlocks, ret, handlers, limiter, store, nextId>>
  /\ ServerUnchanged

\* POST /api/schedule
ServerPost(u) ==
  /\ u \in Pending /\ ops[u].kind = "create" /\ ops[u].phase = "sent"
  /\ LET d == ops[u].data
         newBlock == [id |-> ServerId(nextId), title |-> d.title,
                      startTime |-> d.startTime, endTime |-> d.endTime,
                      category |-> "cat", updatedAt |-> now]
     IN IF Overlapping(store, d.startTime, d.endTime) # {}
        THEN /\ ops' = Reply(u, FALSE, <<>>, MsgConflict)
             /\ last' = Quiet
             /\ UNCHANGED <<existingBlocks, ret, handlers, limiter, store, nextId>>
        ELSE /\ ops' = Reply(u, TRUE, <<newBlock>>, Null)
             /\ last' = Quiet
             /\ store' = store \cup {newBlock}
             /\ nextId' = nextId + 1
  /\ ServerUnchanged

\* PUT /api/schedule/[id]
ServerPut(u) ==
  /\ u \in Pending /\ ops[u].kind = "update" /\ ops[u].phase = "sent"
  /\ LET id == ops[u].id
         d == ops[u].data
         existing == {b \in store : b.id = id}
     IN IF IsTempId(id)
        THEN /\ ops' = Reply(u, FALSE, <<>>, MsgBadId)
             /\ last' = Quiet
             /\ UNCHANGED store
        ELSE IF existing = {}
        THEN /\ ops' = Reply(u, FALSE, <<>>, MsgNotFound)
             /\ last' = Quiet
             /\ UNCHANGED store
        ELSE LET e == CHOOSE b \in existing : TRUE
                 updatedBlock == [e EXCEPT !.title = d.title, !.updatedAt = now]
             IN /\ ops' = Reply(u, TRUE, <<updatedBlock>>, Null)
                /\ last' = Quiet
                /\ store' = (store \ {e}) \cup {updatedBlock}
  /\ UNCHANGED nextId
  /\ ServerUnchanged

\* DELETE /api/schedule/[id]
ServerDelete(u) ==
  /\ u \in Pending /\ ops[u].kind = "delete" /\ ops[u].phase = "sent"
  /\ LET id == ops[u].id
         existing == {b \in store : b.id = id}
     IN IF IsTempId(id)
        THEN /\ ops' = Reply(u, FALSE, <<>>, MsgBadId)
             /\ last' = Quiet
             /\ UNCHANGED store
        ELSE IF existing = {}
        THEN /\ ops' = Reply(u, FALSE, <<>>, MsgNotFound)
             /\ last' = Quiet
             /\ UNCHANGED store
        ELSE /\ ops' = Reply(u, TRUE, <<>>, Null)
             /\ last' = Quiet
             /\ store' = store \ existing
  /\ UNCHANGED nextId
  /\ ServerUnchanged

\* the request never reaches the route: fetch() rejects
NetworkFail(u) ==
  /\ u \in Pending /\ ops[u].phase = "sent"
  /\ ops' = Reply(u, FALSE, <<>>, MsgNetwork)
  /\ last' = Quiet
  /\ UNCHANGED <<existingBlocks, ret, handlers, limiter, store, nextId>>
  /\ ServerUnchanged

\* ---------------------------------------------------------------- specification
Next ==
  \/ Refetch /\ UNCHANGED form
  \/ \E data \in CreateData, t \in 0..MaxClock : CreateBlock(data, t) /\ UNCHANGED form
  \/ \E id \in CallerIds, data \in UpdateData, t \in 0..MaxClock : UpdateBlock(id, data, t) /\ UNCHANGED form
  \/ \E id \in CallerIds, data \in UpdateData : UpdateNotFound(id, data) /\ UNCHANGED form
  \/ \E id \in CallerIds : DeleteBlock(id) /\ UNCHANGED form
  \/ \E id \in CallerIds : DeleteNotFound(id) /\ UNCHANGED form
  \/ \E u \in Pending : FetchResolved(u) /\ UNCHANGED form
  \/ \E u \in Pending : FetchRejected(u) /\ UNCHANGED form
  \/ \E u \in Pending : CreateResolved(u) /\ UNCHANGED form
  \/ \E u \in Pending : CreateRejected(u) /\ UNCHANGED form
  \/ \E u \in Pending : UpdateResolved(u) /\ UNCHANGED form
  \/ \E u \in Pending : UpdateRejected(u) /\ UNCHANGED form
  \/ \E u \in Pending : DeleteResolved(u) /\ UNCHANGED form
  \/ \E u \in Pending : DeleteRejected(u) /\ UNCHANGED form
  \/ \E u \in Pending : ServerGet(u) /\ UNCHANGED form
  \/ \E u \in Pending : ServerPost(u) /\ UNCHANGED form
  \/ \E u \in Pending : ServerPut(u) /\ UNCHANGED form
  \/ \E u \in Pending : ServerDelete(u) /\ UNCHANGED form
  \/ \E u \in Pending : NetworkFail(u) /\ UNCHANGED form

\* the coordinator under any caller of its four operations
Spec == Init /\ [][Next]_vars

\* the page creates the coordinator with optimistic updates enabled
PageInit == Init /\ enableOptimisticUpdates

\* the page's week navigation: the effect on weekGrid.currentWeek and the
\* refresh button drive the coordinator's fetch
PageNext ==
  \/ Refetch /\ UNCHANGED form
  \/ \E direction \in {"prev", "next"} : NavigateWeek(direction) /\ UNCHANGED form
  \/ \E u \in Pending : FetchResolved(u) /\ UNCHANGED form
  \/ \E u \in Pending : FetchRejected(u) /\ UNCHANGED form
  \/ \E u \in Pending : ServerGet(u) /\ UNCHANGED form
  \/ \E u \in Pending : NetworkFail(u) /\ UNCHANGED form

SpecPage == PageInit /\ [][PageNext]_vars

\* a pending fetch gets its response, and its continuation then runs
FetchProgress ==
  \E u \in Pending :
    /\ ops[u].kind = "fetch"
    /\ FetchResolved(u) \/ FetchRejected(u) \/ ServerGet(u) \/ NetworkFail(u)
    /\ UNCHANGED form

\* the four operations called within one reading of the clock; fetchBlocks
\* and the loading flag never read it
LiveNext == Next /\ now' = now

\* the coordinator when every issued fetch is eventually answered
SpecLive == Init /\ [][LiveNext]_vars /\ WF_vars(FetchProgress)

\* ---------------------------------------------------------------- the routes, await by await
\* POST /api/schedule and PUT /api/schedule/[id] run as async functions: the
\* overlap query and the write are separate awaits, and handlers of other
\* requests run between them.
StoreTimes == {<<2, 4>>, <<3, 5>>}

Handler(method, id, t) ==
  [method |-> method, id |-> id, startTime |-> t[1], endTime |-> t[2],
   phase |-> "received"]

Handling == DOMAIN handlers

Respond(h) ==
  [v \in 1..(Len(handlers) - 1) |-> IF v < h THEN handlers[v] ELSE handlers[v + 1]]

Advance(h, phase) == [handlers EXCEPT ![h] = [@ EXCEPT !.phase = phase]]

routeOther ==
  <<blocks, isLoading, error, currentWeekRef, abortControllerRef,
    enableOptimisticUpdates, weekDate, now, ops, acked, last, existingBlocks,
    ret, form>>

\* the request reaches its route: RateLimiter.check, then the body is read
Receive(method, id, t) ==
  /\ nOps < MaxOps /\ Len(handlers) < MaxInFlight
  /\ LET a == Admitted(limiter, now * TickMs, method)
     IN /\ limiter' = a.requests
        /\ handlers' = IF a.ok THEN Append(handlers, Handler(method, id, t))
                       ELSE handlers
  /\ nOps' = nOps + 1
  /\ UNCHANGED <<store, nextId, routeOther>>

\* POST: prisma.scheduleBlock.findMany of the overlapping blocks, 409 if any
PostFindMany(h) ==
  /\ h \in Handling
  /\ handlers[h].method = "POST" /\ handlers[h].phase = "received"
  /\ handlers' = IF Overlapping(store, handlers[h].startTime, handlers[h].endTime) # {}
                 THEN Respond(h)
                 ELSE Advance(h, "checked")
  /\ UNCHANGED <<store, nextId, nOps, limiter, routeOther>>

\* POST: prisma.scheduleBlock.create, 201
PostCreate(h) ==
  /\ h \in Handling
  /\ handlers[h].method = "POST" /\ handlers[h].phase = "checked"
  /\ store' = store \cup {[id |-> ServerId(nextId), title |-> "a",
                           startTime |-> handlers[h].startTime,
                           endTime |-> handlers[h].endTime,
                           category |-> "cat", updatedAt |-> now]}
  /\ nextId' = nextId + 1
  /\ handlers' = Respond(h)
  /\ UNCHANGED <<nOps, limiter, routeOther>>

\* PUT: prisma.scheduleBlock.findUnique, 404 if the block is not there
PutFindUnique(h) ==
  /\ h \in Handling
  /\ handlers[h].method = "PUT" /\ handlers[h].phase = "received"
  /\ handlers' = IF \E b \in store : b.id = handlers[h].id
                 THEN Advance(h, "found")
                 ELSE Respond(h)
  /\ UNCHANGED <<store, nextId, nOps, limiter, routeOther>>

\* PUT: findMany of the overlapping blocks other than the block itself, 409 if any
PutFindMany(h) ==
  /\ h \in Handling
  /\ handlers[h].method = "PUT" /\ handlers[h].phase = "found"
  /\ handlers' = IF Overlapping({b \in store : b.id # handlers[h].id},
                                handlers[h].startTime, handlers[h].endTime) # {}
                 THEN Respond(h)
                 ELSE Advance(h, "checked")
  /\ UNCHANGED <<store, nextId, nOps, limiter, routeOther>>

\* PUT: prisma.scheduleBlock.update, 200
PutUpdate(h) ==
  /\ h \in Handling
  /\ handlers[h].method = "PUT" /\ handlers[h].phase = "checked"
  /\ store' = {IF b.id = handlers[h].id
               THEN [b EXCEPT !.startTime = handlers[h].startTime,
                              !.endTime = handlers[h].endTime, !.updatedAt = now]
               ELSE b : b \in store}
  /\ handlers' = Respond(h)
  /\ UNCHANGED <<nextId, nOps, limiter, routeOther>>

StoreNext ==
  \/ \E t \in StoreTimes : Receive("POST", NoId, t)
  \/ \E b \in store, t \in StoreTimes : Receive("PUT", b.id, t)
  \/ \E h \in Handling : PostFindMany(h)
  \/ \E h \in Handling : PostCreate(h)
  \/ \E h \in Handling : PutFindUnique(h)
  \/ \E h \in Handling : PutFindMany(h)
  \/ \E h \in Handling : PutUpdate(h)

SpecStore == Init /\ [][StoreNext]_vars

\* ---------------------------------------------------------------- requests of one client against the rate limiter
MaxTicks == 3
Methods == {"GET", "POST", "PUT", "DELETE"}

rateOther ==
  <<blocks, isLoading, error, currentWeekRef, abortControllerRef,
    enableOptimisticUpdates, weekDate, store, nextId, ops, nOps, acked, last,
    existingBlocks, handlers, form>>

\* a route calls RateLimiter.check(clientIp, limit, 60000) and answers 429 on false
Request(method) ==
  /\ LET a == Admitted(limiter, now * TickMs, method)
     IN /\ limiter' = a.requests
        /\ ret' = [fn |-> "RateLimiter.check", limit |-> LimitOf(method),
                   ok |-> a.ok, readsBefore |-> a.readsBefore,
                   writesBefore |-> a.writesBefore]
  /\ UNCHANGED <<now, rateOther>>

Tick ==
  /\ now < MaxTicks
  /\ now' = now + 1
  /\ UNCHANGED <<limiter, ret, rateOther>>

RateNext ==
  \/ \E method \in Methods : Request(method)
  \/ Tick

SpecRate == Init /\ [][RateNext]_vars

\* ---------------------------------------------------------------- lib/ calls
\* The functions of lib/ are pure: a run draws the block list in its first
\* state and then calls the function on it with arguments of the caller.
MaxBlocks == 2     \* blocks in the list a lib/ function is called with

CalendarDays == {0, 1}

Intervals(days, starts, lengths) ==
  {<<(d * MinutesPerDay) + s, (d * MinutesPerDay) + s + n>> :
     d \in days, s \in starts, n \in lengths}

\* lists of at most MaxBlocks blocks; the store gives every block its own id
BlockLists(titles, intervals) ==
  {[i \in DOMAIN f |-> [id |-> ServerId(i), title |-> f[i][1],
                    startTime |-> f[i][2][1], endTime |-> f[i][2][2]]] :
     f \in UNION {[1..n -> titles \X intervals] : n \in 0..MaxBlocks}}

hookVars == <<blocks, isLoading, error, currentWeekRef, abortControllerRef,
              enableOptimisticUpdates, weekDate, store, nextId, now, ops, nOps,
              acked, last>>

\* a run of lib/ calls leaves the coordinator as the page created it
LibInit(lists) ==
  /\ HookInit
  /\ enableOptimisticUpdates
  /\ existingBlocks \in lists
  /\ ret = NoCall
  /\ handlers = <<>>
  /\ limiter = NoWindow
  /\ form = ClosedForm

\* ConflictChecker.checkForConflicts on 09:00 .. 10:30 and around midnight
ConflictBlocks ==
  BlockLists(Titles, Intervals({1}, {540, 570}, {30, 60})
                       \cup Intervals({0}, {1410}, {60}))

Candidates ==
  {[startTime |-> iv[1], endTime |-> iv[2]] :
     iv \in Intervals({1}, {0, 540, 570}, {30, 60, 90})}

CheckForConflicts(newBlock, excludeBlockId) ==
  /\ ret' = [fn |-> "checkForConflicts", newBlock |-> newBlock,
             excludeBlockId |-> excludeBlockId,
             result |-> checkForConflicts(newBlock, existingBlocks, excludeBlockId)]
  /\ UNCHANGED <<hookVars, existingBlocks, handlers, limiter, form>>

ConflictInit == LibInit(ConflictBlocks)

ConflictNext ==
  \E newBlock \in Candidates, excludeBlockId \in {NoExclude} \cup Ids(existingBlocks) :
    CheckForConflicts(newBlock, excludeBlockId)

SpecConflict == ConflictInit /\ [][ConflictNext]_vars

\* ConflictChecker.findNextAvailableSlot on two days, 07:00 .. 19:00
SlotBlocks ==
  BlockLists({"a"}, Intervals(CalendarDays, {540, 570, 1050}, {30, 60, 90}))

PreferredStarts ==
  {(d * MinutesPerDay) + m : d \in CalendarDays, m \in {420, 540, 600, 1050}}

Durations == {30, 60}

FindNextAvailableSlot(duration, preferredStart) ==
  /\ ret' = [fn |-> "findNextAvailableSlot", duration |-> duration,
             preferredStart |-> preferredStart,
             workingHours |-> DefaultWorkingHours,
             result |-> findNextAvailableSlot(duration, preferredStart,
                                              existingBlocks, DefaultWorkingHours)]
  /\ UNCHANGED <<hookVars, existingBlocks, handlers, limiter, form>>

SlotInit == LibInit(SlotBlocks)

SlotNext ==
  \E duration \in Durations, preferredStart \in PreferredStarts :
    FindNextAvailableSlot(duration, preferredStart)

SpecSlot == SlotInit /\ [][SlotNext]_vars

\* calculateGridPosition and getWeekStart around the week of days 7 .. 13:
\* blocks on the Saturday before it, inside it and on the Sunday after it,
\* at 00:00, 09:10 and 23:40
GridBlocks ==
  BlockLists({"a"}, Intervals({6, 8, 14}, {0, 550, 1420}, {20, 30}))

\* Sunday 00:00, Wednesday 09:10 and Saturday 23:40 of that week
GridDates == {7 * MinutesPerDay, (10 * MinutesPerDay) + 550, (13 * MinutesPerDay) + 1420}

\* WeekGrid / useWeekGrid place a block of the list for the week of a date
CalculateGridPosition(i, date) ==
  /\ i \in DOMAIN existingBlocks
  /\ ret' = [fn |-> "calculateGridPosition", block |-> existingBlocks[i],
             weekStart |-> getWeekStart(date),
             result |-> calculateGridPosition(existingBlocks[i], getWeekStart(date))]
  /\ UNCHANGED <<hookVars, existingBlocks, handlers, limiter, form>>

GetWeekStart(date) ==
  /\ ret' = [fn |-> "getWeekStart", date |-> date, result |-> getWeekStart(date)]
  /\ UNCHANGED <<hookVars, existingBlocks, handlers, limiter, form>>

\* isSameWeek, as useWeekGrid and the page call it
IsSameWeek(date1, date2) ==
  /\ ret' = [fn |-> "isSameWeek", date1 |-> date1, date2 |-> date2,
             result |-> isSameWeek(date1, date2)]
  /\ UNCHANGED <<hookVars, existingBlocks, handlers, limiter, form>>

\* currentWeekBlocks of the page: blocks.filter(block =>
\* weekGrid.isInCurrentWeek(block.startTime))
CurrentWeekBlocks(currentWeek) ==
  /\ ret' = [fn |-> "currentWeekBlocks", currentWeek |-> currentWeek,
             result |-> SelectSeq(existingBlocks,
                                  LAMBDA block : isSameWeek(block.startTime, currentWeek))]
  /\ UNCHANGED <<hookVars, existingBlocks, handlers, limiter, form>>

GridInit == LibInit(GridBlocks)

GridNext ==
  \/ \E i \in 1..MaxBlocks, date \in GridDates : CalculateGridPosition(i, date)
  \/ \E date \in GridDates : GetWeekStart(date)
  \/ \E date1 \in GridDates, date2 \in GridDates : IsSameWeek(date1, date2)
  \/ \E currentWeek \in GridDates : CurrentWeekBlocks(currentWeek)

SpecGrid == GridInit /\ [][GridNext]_vars

\* the slot and rounding functions of lib/utils.ts, for the week starts
\* getWeekStart gives for GridDates
TimeSlots ==
  [day : 0..(DaysPerWeek - 1), hour : 0..(HoursPerDay - 1), minute : {0, SlotMinutes}]

\* the instants of a week on a half hour
AlignedInstants(weekStart) ==
  {(DateOf(weekStart) * MinutesPerDay) + (k * SlotMinutes) :
     k \in 0..(((DaysPerWeek * MinutesPerDay) \div SlotMinutes) - 1)}

\* every minute of a Saturday, on the second and at its last second
RoundInputs ==
  [t : {(13 * MinutesPerDay) + m : m \in 0..(MinutesPerDay - 1)}, sec : {0, 59}]

\* a call about to be made, with its arguments
Call(fn, arg, date) == [fn |-> "none", next |-> fn, arg |-> arg, date |-> date]

\* getDateForTimeSlot / timeSlotToDate, and the slot read back from its result
TimeSlotToDate ==
  /\ ret.fn = "none" /\ ret.next = "timeSlotToDate"
  /\ LET weekStart == getWeekStart(ret.date)
         result == timeSlotToDate(ret.arg, weekStart)
     IN ret' = [fn |-> "timeSlotToDate", slot |-> ret.arg, weekStart |-> weekStart,
                result |-> result, back |-> getTimeSlot(result, weekStart)]
  /\ UNCHANGED <<hookVars, existingBlocks, handlers, limiter, form>>

\* getTimeSlot of an aligned instant, and the instant read back from its result
GetTimeSlot ==
  /\ ret.fn = "none" /\ ret.next = "getTimeSlot"
  /\ LET weekStart == getWeekStart(ret.date)
         result == getTimeSlot(ret.arg, weekStart)
     IN ret' = [fn |-> "getTimeSlot", date |-> ret.arg, weekStart |-> weekStart,
                result |-> result, back |-> timeSlotToDate(result, weekStart)]
  /\ UNCHANGED <<hookVars, existingBlocks, handlers, limiter, form>>

\* roundToTimeSlot, and roundToTimeSlot of its result
RoundToTimeSlot ==
  /\ ret.fn = "none" /\ ret.next = "roundToTimeSlot"
  /\ ret' = [fn |-> "roundToTimeSlot", date |-> ret.arg,
             result |-> roundToTimeSlot(ret.arg),
             again |-> roundToTimeSlot(roundToTimeSlot(ret.arg))]
  /\ UNCHANGED <<hookVars, existingBlocks, handlers, limiter, form>>

\* a run starts with the arguments of one call
TimeInit ==
  /\ HookInit
  /\ enableOptimisticUpdates
  /\ existingBlocks = <<>>
  /\ handlers = <<>>
  /\ limiter = NoWindow
  /\ form = ClosedForm
  /\ \/ ret \in {Call("timeSlotToDate", slot, date) :
                   slot \in TimeSlots, date \in GridDates}
     \/ \E date \in GridDates :
          ret \in {Call("getTimeSlot", t, date) : t \in AlignedInstants(getWeekStart(date))}
     \/ ret \in {Call("roundToTimeSlot", date, 0) : date \in RoundInputs}

TimeNext ==
  \/ TimeSlotToDate
  \/ GetTimeSlot
  \/ RoundToTimeSlot

SpecTime == TimeInit /\ [][TimeNext]_vars

\* ---------------------------------------------------------------- the block form on the page
\* handleSaveBlock: its catch shows a toast and does not rethrow, so the
\* promise BlockForm awaits is fulfilled whether the save failed or not
HandleSaveBlockThrows(saveFailed) == FALSE

\* the page closes the form: setIsFormOpen(false), setEditingBlock(undefined);
\* BlockForm's effect on isOpen then resets the values and clears the errors
CloseForm(f) ==
  [f EXCEPT !.isOpen = FALSE, !.editingBlock = NoId, !.formData = NoData,
            !.submitError = FALSE]

\* handleSubmit after await onSave(formData): onCancel() in the try branch,
\* setErrors({submit}) in the catch branch, setIsSubmitting(false) in finally
HandleSubmitSettled(f, threw) ==
  IF threw
  THEN [f EXCEPT !.submitError = TRUE, !.isSubmitting = FALSE, !.onCancel = FALSE]
  ELSE [CloseForm(f) EXCEPT !.isSubmitting = FALSE, !.onCancel = TRUE]

formOther == <<existingBlocks, ret, handlers, limiter>>

\* handleBlockCreate, and the user fills in the values
OpenCreate(data) ==
  /\ ~form.isOpen
  /\ form' = [form EXCEPT !.isOpen = TRUE, !.editingBlock = NoId,
                          !.formData = data, !.submitError = FALSE,
                          !.onCancel = FALSE]
  /\ UNCHANGED <<hookVars, formOther>>

\* handleEditBlock(block), and the user changes the values
OpenEdit(id, data) ==
  /\ ~form.isOpen
  /\ form' = [form EXCEPT !.isOpen = TRUE, !.editingBlock = id,
                          !.formData = data, !.submitError = FALSE,
                          !.onCancel = FALSE]
  /\ UNCHANGED <<hookVars, formOther>>

\* handleCancelForm, from the Cancel button or the dialog's onOpenChange
HandleCancelForm ==
  /\ form.isOpen
  /\ form' = [CloseForm(form) EXCEPT !.onCancel = TRUE]
  /\ UNCHANGED <<hookVars, formOther>>

\* handleSubmit up to the await: onSave is handleSaveBlock, which calls
\* updateBlock(editingBlock.id, data) or createBlock(data)
HandleSubmit(t) ==
  /\ form.isOpen /\ ~form.isSubmitting
  /\ IF form.editingBlock = NoId
     THEN CreateBlock(form.formData, t)
     ELSE UpdateBlock(form.editingBlock, form.formData, t)
  /\ form' = [form EXCEPT !.isSubmitting = TRUE, !.submitError = FALSE,
                          !.onCancel = FALSE]

\* the save is fulfilled: handleSaveBlock closes the form, handleSubmit goes on
SaveResolved(u) ==
  /\ CreateResolved(u) \/ UpdateResolved(u)
  /\ form' = HandleSubmitSettled(CloseForm(form), HandleSaveBlockThrows(FALSE))

\* the save is rejected: handleSaveBlock's catch, handleSubmit goes on
SaveRejected(u) ==
  /\ CreateRejected(u) \/ UpdateRejected(u)
  /\ form' = HandleSubmitSettled(form, HandleSaveBlockThrows(TRUE))

FormNext ==
  \/ \E data \in CreateData : OpenCreate(data)
  \/ \E id \in Ids(blocks), data \in UpdateData : OpenEdit(id, data)
  \/ HandleCancelForm
  \/ \E t \in 0..MaxClock : HandleSubmit(t)
  \/ \E u \in Pending : SaveResolved(u)
  \/ \E u \in Pending : SaveRejected(u)
  \/ \E u \in Pending : ServerPost(u) /\ UNCHANGED form
  \/ \E u \in Pending : ServerPut(u) /\ UNCHANGED form
  \/ \E u \in Pending : NetworkFail(u) /\ UNCHANGED form

\* the page with its form, saving through the coordinator
SpecForm == PageInit /\ [][FormNext]_vars

TypeOK ==
  /\ isLoading \in BOOLEAN
  /\ now \in 0..MaxClock
  /\ nOps \in 0..MaxOps

\* ---------------------------------------------------------------- claims
Ended(kind, outcome) == last.kind = kind /\ last.outcome = outcome
NoTempIds(s) == \A i \in 1..Len(s) : ~IsTempId(s[i].id)
UniqueIds(s) == \A i, j \in 1..Len(s) : s[i].id = s[j].id => i = j

\* C1: a fetch that a newer fetch has superseded never writes the collection,
\* whether it is fulfilled or rejected and whenever its response arrives; when
\* the latest fetch is fulfilled the collection is exactly its result.
C1_FetchSupersession ==
  [][last'.kind = "fetch" =>
       IF last'.op.aborted THEN blocks' = blocks
       ELSE (last'.outcome = "ok" => blocks' = last'.op.res)]_vars

\* the superseded fetch is fulfilled after the newer one has settled, with a
\* result that differs from the collection
C1_Witness ==
  /\ Ended("fetch", "ok") /\ last.op.aborted
  /\ last.op.res # blocks
  /\ ~isLoading /\ ops = <<>>

\* C2: a createBlock called with nothing else in flight, on a collection
\* without provisional entries, whose request fails leaves the collection
\* with its pre-call length and without provisional entries, with optimistic
\* updates enabled and disabled.
C2_FailedCreateLeavesNoTrace ==
  (Ended("create", "fail") /\ last.op.alone /\ NoTempIds(last.op.pre)) =>
     /\ Len(blocks) = Len(last.op.pre)
     /\ NoTempIds(blocks)

C2_Witness ==
  /\ Ended("create", "fail") /\ last.op.alone /\ NoTempIds(last.op.pre)
  /\ enableOptimisticUpdates
  /\ last.op.pre # <<>>

\* C3: an updateBlock(id, data) called with nothing else in flight, on a
\* collection that holds id once, whose request fails leaves every entry,
\* the one for id with its update timestamp included, as it was before the call.
C3_FailedUpdateRestoresSnapshot ==
  (Ended("update", "fail") /\ last.op.alone /\ Count(last.op.pre, last.op.id) = 1) =>
     blocks = last.op.pre

\* the optimistic merge had changed both the title and the timestamp
C3_Witness ==
  /\ Ended("update", "fail") /\ last.op.alone
  /\ enableOptimisticUpdates
  /\ Count(last.op.pre, last.op.id) = 1
  /\ last.op.orig[1].title # last.op.data.title
  /\ last.op.orig[1].updatedAt # now

\* C4 (as claimed): after a successful createBlock the collection holds the
\* server's entry exactly once and no entry with the call's temporary id, in
\* every interleaving.
C4_CreatedEntryExactlyOnce ==
  Ended("create", "ok") =>
     /\ Count(blocks, last.op.res[1].id) = 1
     /\ last.op.id \notin Ids(blocks)

\* C5 (as claimed): when a create, update or delete request fails and no other
\* mutation is in flight, the collection holds exactly the blocks the server
\* last acknowledged, each once.
C5_FailureReflectsServerState ==
  (/\ last.outcome = "fail"
   /\ last.kind \in {"create", "update", "delete"}
   /\ \A u \in DOMAIN ops : ops[u].kind = "fetch") =>
     /\ Range(blocks) = acked
     /\ UniqueIds(blocks)

\* a delete called with nothing else in flight on a collection holding id once
AloneDeleteInFlight(u) ==
  /\ ops[u].kind = "delete" /\ ops[u].alone
  /\ Count(ops[u].pre, ops[u].id) = 1
AloneDeleteEnded(outcome) ==
  /\ Ended("delete", outcome) /\ last.op.alone
  /\ Count(last.op.pre, last.op.id) = 1

MovedToLast(pre, id, originalBlock) == Append(Filter(pre, id), originalBlock)

\* C6 (as claimed): deleteBlock(id) removes the entry as soon as it is
\* issued; if the request fails the collection is the pre-call collection
\* with the entry moved to the end; if it succeeds the entry stays absent.
C6_DeleteAsClaimed ==
  /\ \A u \in DOMAIN ops : AloneDeleteInFlight(u) => ops[u].id \notin Ids(blocks)
  /\ AloneDeleteEnded("fail") =>
       blocks = MovedToLast(last.op.pre, last.op.id, last.op.orig[1])
  /\ AloneDeleteEnded("ok") => last.op.id \notin Ids(blocks)

\* C6 (amended): with optimistic updates enabled the claim holds as stated;
\* with them disabled the collection stays as it was while the request is in
\* flight and after it fails, and the entry is removed when it succeeds.
C6_DeleteRollback ==
  /\ \A u \in DOMAIN ops : AloneDeleteInFlight(u) =>
       blocks = IF enableOptimisticUpdates
                THEN Filter(ops[u].pre, ops[u].id) ELSE ops[u].pre
  /\ AloneDeleteEnded("fail") =>
       blocks = IF enableOptimisticUpdates
                THEN MovedToLast(last.op.pre, last.op.id, last.op.orig[1])
                ELSE last.op.pre
  /\ AloneDeleteEnded("ok") => blocks = Filter(last.op.pre, last.op.id)

\* the failed delete's entry was not the last one before the call
C6_Witness ==
  /\ AloneDeleteEnded("fail")
  /\ enableOptimisticUpdates
  /\ Len(last.op.pre) > 1
  /\ last.op.pre[Len(last.op.pre)].id # last.op.id

\* C7: when an updateBlock response is processed successfully, every entry
\* of the collection for that id is the server entry of that response; so of
\* two updates in flight on one id the response processed last decides.
C7_LastResponseWins ==
  Ended("update", "ok") =>
     \A i \in 1..Len(blocks) :
        blocks[i].id = last.op.id => blocks[i] = last.op.res[1]

\* two updates on the id overlapped and both succeeded; the one whose
\* response came last was not the last the server applied
C7_Witness ==
  /\ Ended("update", "ok") /\ ~last.op.alone /\ ops = <<>>
  /\ last.op.id \in Ids(blocks)
  /\ \E b \in store : b.id = last.op.id /\ b.title # last.op.res[1].title

\* C8: when the latest fetch fails the error holds the failure message and
\* the loading flag is cleared; issued with nothing else in flight, the
\* collection is what it was before the fetch.
C8_FailedFetchKeepsCollection ==
  (Ended("fetch", "fail") /\ ~last.op.aborted) =>
     /\ error = last.op.msg
     /\ error # Null
     /\ ~isLoading
     /\ last.op.alone => blocks = last.op.pre

C8_Witness ==
  /\ Ended("fetch", "fail") /\ ~last.op.aborted /\ last.op.alone
  /\ blocks # <<>>

\* C9 (as claimed): every operation that ends in failure, a rejection for an
\* id that is not in the collection included, leaves a last-error recorded.
C9_FailureRecordsError ==
  (/\ last.outcome \in {"fail", "rejected"}
   /\ ~(last.kind = "fetch" /\ last.op.aborted)) =>
     error # Null

\* C10 (as claimed): the fetch triggered by navigating to a week requests
\* that week, and once it succeeds the collection holds blocks of that week only.
C10_NavigationFetchesDisplayedWeek ==
  (Ended("fetch", "ok") /\ last.op.nav /\ ~last.op.aborted) =>
     /\ startOfWeek(last.op.target) = startOfWeek(weekDate)
     /\ Range(blocks) \subseteq InWeek(Range(blocks), weekDate)

\* ---------------------------------------------------------------- claims on lib/
Checked == ret.fn = "checkForConflicts"
Overlap(aStart, aEnd, b) == aStart < b.endTime /\ aEnd > b.startTime
OverlapsCandidate(b) == Overlap(ret.newBlock.startTime, ret.newBlock.endTime, b)
Touches(b) ==
  b.endTime = ret.newBlock.startTime \/ b.startTime = ret.newBlock.endTime
OnCandidateDay(b) == DateOf(b.startTime) = DateOf(ret.newBlock.startTime)
Reported(b) ==
  \E i \in DOMAIN ret.result.conflictingBlocks : ret.result.conflictingBlocks[i] = b

\* C11: for a candidate with start < end and a list of existing blocks that
\* are all on the candidate's calendar day, checkForConflicts returns as
\* conflictingBlocks exactly the blocks, in input order, whose id is not
\* excludeId and that satisfy candidate.start < b.end and candidate.end >
\* b.start; hasConflict is true iff that list is non-empty; a block that only
\* touches the candidate and the block named by excludeId are never reported.
C11_ConflictsExactly ==
  (/\ Checked
   /\ ret.newBlock.startTime < ret.newBlock.endTime
   /\ \A b \in Range(existingBlocks) : OnCandidateDay(b))
  => /\ ret.result.conflictingBlocks =
          SelectSeq(existingBlocks,
                    LAMBDA b : b.id # ret.excludeBlockId /\ OverlapsCandidate(b))
     /\ ret.result.hasConflict = (ret.result.conflictingBlocks # <<>>)
     /\ \A b \in Range(existingBlocks) :
          (Touches(b) \/ b.id = ret.excludeBlockId) => ~Reported(b)

\* a conflict is reported while another block of the list, on the same day and
\* touching the candidate at an endpoint, is not
C11_Witness ==
  /\ Checked
  /\ \A b \in Range(existingBlocks) : OnCandidateDay(b)
  /\ ret.result.hasConflict
  /\ \E b \in Range(existingBlocks) : Touches(b) /\ ~Reported(b)

\* C12: checkForConflicts never reports an existing block whose start falls on
\* another calendar day than the candidate's start, even when the two
\* intervals overlap in time.
C12_NeverAcrossDays ==
  Checked => \A b \in Range(existingBlocks) : Reported(b) => OnCandidateDay(b)

\* the texts one conflicting block contributes, in the order of the claim
C13_Emitted(conflict) ==
  (IF conflict.startTime > ret.newBlock.startTime
   THEN <<<<"antes", conflict.title, format(conflict.startTime)>>>> ELSE <<>>)
  \o (IF conflict.endTime < ret.newBlock.endTime
      THEN <<<<"despues", conflict.title, format(conflict.endTime)>>>> ELSE <<>>)

RECURSIVE C13_Walk(_)
C13_Walk(s) == IF s = <<>> THEN <<>> ELSE C13_Emitted(Head(s)) \o C13_Walk(Tail(s))

\* the texts of r that equal no earlier text of r, in the order of r
C13_FirstOccurrences(r) ==
  LET keep == {k \in 1..Len(r) : \A j \in 1..(k - 1) : r[j] # r[k]}
  IN [i \in 1..Cardinality(keep) |->
        r[CHOOSE k \in keep : Cardinality({j \in keep : j < k}) = i - 1]]

NineToTen ==
  [startTime |-> MinutesPerDay + 540, endTime |-> MinutesPerDay + 600]

\* C13: the suggestion list is: for each conflicting block in input order, a
\* "before" text iff conflict.start > candidate.start, then an "after" text
\* iff conflict.end < candidate.end, with every text equal to an earlier one
\* dropped. A candidate 09:00-10:00 against one block 09:30-10:30 yields
\* exactly the "before" suggestion.
C13_SuggestionsAsReference ==
  Checked =>
    /\ ret.result.suggestions =
         C13_FirstOccurrences(C13_Walk(ret.result.conflictingBlocks))
    /\ (/\ ret.newBlock = NineToTen
        /\ Len(ret.result.conflictingBlocks) = 1
        /\ ret.result.conflictingBlocks[1].startTime = MinutesPerDay + 570
        /\ ret.result.conflictingBlocks[1].endTime = MinutesPerDay + 630)
       => ret.result.suggestions =
            <<<<"antes", ret.result.conflictingBlocks[1].title, <<9, 30>>>>>>

\* two conflicting blocks gave the same text and it is listed once
C13_Witness ==
  /\ Checked
  /\ Len(ret.result.conflictingBlocks) = 2
  /\ Len(ret.result.suggestions) < Len(C13_Walk(ret.result.conflictingBlocks))
  /\ Len(ret.result.suggestions) >= 2

C14_Free(start, end) ==
  \A b \in Range(existingBlocks) :
    b.id # ret.excludeBlockId => ~Overlap(start, end, b)

\* C14: no suggestion is generated whose placement still overlaps a known
\* block: the candidate moved to end at conflict.start ("before") or to start
\* at conflict.end ("after"), with its duration kept, overlaps no existing block.
C14_SuggestionsAreFree ==
  Checked =>
    LET duration == ret.newBlock.endTime - ret.newBlock.startTime
    IN \A c \in Range(ret.result.conflictingBlocks) :
         /\ c.startTime > ret.newBlock.startTime
              => C14_Free(c.startTime - duration, c.startTime)
         /\ c.endTime < ret.newBlock.endTime
              => C14_Free(c.endTime, c.endTime + duration)

Searched == ret.fn = "findNextAvailableSlot"
Found == Searched /\ ret.result # NoSlot
ClampedStart == ClampToWorkingHours(ret.preferredStart, ret.workingHours)
Feasible(t) ==
  \A b \in Range(existingBlocks) : ~Overlap(t, t + ret.duration, b)
InWorkingHours(t) ==
  /\ t >= setHours(t, ret.workingHours.start)
  /\ t + ret.duration <= setHours(t, ret.workingHours.end)
\* the starts on the half-hour grid of the inputs, up to the end of the last day
SlotGrid == {k * SlotMinutes : k \in 0..((3 * MinutesPerDay) \div SlotMinutes)}

\* C15: findNextAvailableSlot returns the earliest feasible start: when it
\* returns t, no t' with clampedPreferredStart <= t' < t has [t', t'+duration)
\* free of every existing block; it returns "no slot" only when no feasible
\* start exists at or after the clamped preferred start within the working
\* hours of that day;
\* for (30 min, 09:00, one block 09:00-10:00, hours 8-18) it returns 10:00.
C15_EarliestFeasible ==
  Searched =>
    /\ ret.result # NoSlot =>
         \A t \in SlotGrid : (ClampedStart <= t /\ t < ret.result) => ~Feasible(t)
    /\ ret.result = NoSlot =>
         \A t \in SlotGrid :
           (ClampedStart <= t /\ DateOf(t) = DateOf(ClampedStart))
             => ~(Feasible(t) /\ InWorkingHours(t))
    /\ (/\ ret.duration = 30
        /\ ret.preferredStart = MinutesPerDay + 540
        /\ Len(existingBlocks) = 1
        /\ existingBlocks[1].startTime = MinutesPerDay + 540
        /\ existingBlocks[1].endTime = MinutesPerDay + 600)
       => ret.result = MinutesPerDay + 600

\* C16: a start returned by findNextAvailableSlot is never earlier than the
\* preferred start clamped up to workingHours.start, whatever the blocks are.
C16_NotBeforePreferred == Found => ret.result >= ClampedStart

\* C17: the interval [t, t+duration) of a returned start t overlaps none of
\* the existing blocks, also when blocks overlap or nest.
C17_ReturnedSlotIsFree == Found => Feasible(ret.result)

\* C18: a returned slot lies inside the working hours: it starts at or after
\* workingHours.start:00 and ends at or before workingHours.end:00 of the
\* same day, whether returned during the sweep or after it.
C18_InsideWorkingHours == Found => InWorkingHours(ret.result)

Placed == ret.fn = "calculateGridPosition"

\* C19: for every block (aligned or not, inside or outside the displayed week,
\* ending on the same day or at/after midnight) and every week start,
\* calculateGridPosition yields column in 1..7, row in 1..48 and span >= 1.
C19_GridPositionInRange ==
  Placed =>
    /\ ret.result.column \in 1..DaysPerWeek
    /\ ret.result.row \in 1..(2 * HoursPerDay)
    /\ ret.result.span >= 1

\* a block after the displayed week, not on a half hour, ending after midnight
C19_Witness ==
  /\ Placed
  /\ ret.block.startTime >= ret.weekStart + (DaysPerWeek * MinutesPerDay)
  /\ getMinutes(ret.block.startTime) \notin {0, SlotMinutes}
  /\ DateOf(ret.block.endTime) > DateOf(ret.block.startTime)
  /\ getMinutes(ret.block.endTime) # 0

\* Sunday 00:00 of the week of t
SundayMidnight(t) == (DateOf(t) - getDay(t)) * MinutesPerDay

\* C20: getWeekStart(instant) returns, for an instant at any time of day,
\* 00:00:00.000 of the Sunday that begins its week; two instants of the same
\* week yield the same value.
C20_WeekStartIsSundayMidnight ==
  ret.fn = "getWeekStart" =>
    /\ ret.result = SundayMidnight(ret.date)
    /\ \A other \in GridDates :
         SundayMidnight(other) = SundayMidnight(ret.date)
           => getWeekStart(other) = ret.result

\* C21: with ws the week start the application computes for a reference
\* instant (at any time of day), for every block starting inside that week
\* calculateGridPosition(block, ws).column - 1 is the number of calendar days
\* from the week's first day to the block's start day.
C21_ColumnIsDayOfWeek ==
  (/\ Placed
   /\ DateOf(ret.block.startTime) - DateOf(ret.weekStart) \in 0..(DaysPerWeek - 1))
  => ret.result.column - 1 = DateOf(ret.block.startTime) - DateOf(ret.weekStart)

\* C22: timeSlotToDate and getTimeSlot are exact inverses: for every slot and
\* every week start the application produces, the slot read back from
\* timeSlotToDate(s, ws) is s, and for every 30-minute-aligned instant t of
\* that week the instant rebuilt from getTimeSlot(t, ws) is t.
C22_SlotRoundTrip ==
  /\ ret.fn = "timeSlotToDate" => ret.back = ret.slot
  /\ ret.fn = "getTimeSlot" => ret.back = ret.date

Rounded == ret.fn = "roundToTimeSlot"

\* C23: roundToTimeSlot is idempotent, for every hour and minute, also for
\* 23:45 - 23:59, which roll over to the next day.
C23_RoundIdempotent == Rounded => ret.again = ret.result

\* an instant of the last quarter of the day, rounded to the next day
C23_Witness ==
  /\ Rounded
  /\ getHours(ret.date.t) = HoursPerDay - 1
  /\ getMinutes(ret.date.t) >= 45
  /\ DateOf(ret.result.t) = DateOf(ret.date.t) + 1

\* C24: roundToTimeSlot(t) has seconds 0 and a minute of 0 or 30: minute 0 of
\* the same hour when t's minute < 15, minute 30 of the same hour when 15 <=
\* minute < 45, minute 0 of the following hour when minute >= 45 (00:00 of
\* the next day at hour 23); the result is less than 30 minutes from t.
C24_RoundsToNearestSlot ==
  Rounded =>
    LET minutes == getMinutes(ret.date.t)
        hourStart == ret.date.t - minutes
        distance == ((ret.result.t - ret.date.t) * 60) - ret.date.sec
    IN /\ ret.result.sec = 0
       /\ getMinutes(ret.result.t) \in {0, SlotMinutes}
       /\ minutes < 15 => ret.result.t = hourStart
       /\ (15 <= minutes /\ minutes < 45) => ret.result.t = hourStart + SlotMinutes
       /\ minutes >= 45 => ret.result.t = hourStart + MinutesPerHour
       /\ distance < SlotMinutes * 60
       /\ 0 - distance < SlotMinutes * 60

\* an instant with seconds in each of the three ranges of the minute: this
\* one in the last quarter of an hour, rounded up to the following hour
C24_Witness ==
  /\ Rounded
  /\ ret.date.sec # 0
  /\ getMinutes(ret.date.t) >= 45
  /\ getHours(ret.result.t) = getHours(ret.date.t) + 1

\* C29: isSameWeek(d1, d2) is true iff d1 and d2 fall in the same Sunday to
\* Saturday week, whatever their times of day; so the page's current-week
\* filter keeps the blocks whose start lies in the displayed week and only
\* those.
C29_SameWeekIffSameCalendarWeek ==
  /\ ret.fn = "isSameWeek" =>
       ret.result = (SundayMidnight(ret.date1) = SundayMidnight(ret.date2))
  /\ ret.fn = "currentWeekBlocks" =>
       ret.result =
         SelectSeq(existingBlocks,
                   LAMBDA b : SundayMidnight(b.startTime) = SundayMidnight(ret.currentWeek))

\* C25: in the persistent store no two blocks overlap (a.start < b.end and
\* a.end > b.start) in any reachable state, for every interleaving of
\* concurrently handled POST and PUT requests, each of which first queries
\* for overlapping blocks and then writes.
C25_StoreNeverOverlaps ==
  \A a \in store, b \in store :
    a.id # b.id => ~(a.startTime < b.endTime /\ a.endTime > b.startTime)

\* C26: rate limiting per client IP and one-minute window enforces the read
\* and write limits independently: a GET is rejected iff 100 GETs of that IP
\* were already accepted in the current window, a POST/PUT/DELETE is rejected
\* iff 50 such requests were already accepted in it, and after the window
\* expires the counts start again from zero.
C26_IndependentLimits ==
  ret.fn = "RateLimiter.check" =>
    IF ret.limit = ReadLimit
    THEN ~ret.ok <=> ret.readsBefore = ReadLimit
    ELSE ~ret.ok <=> ret.writesBefore = WriteLimit

\* the fetch whose AbortController has not been aborted: the most recently
\* issued one, still awaiting its response or its continuation
LatestFetchPending ==
  \E u \in Pending : ops[u].kind = "fetch" /\ ~ops[u].aborted

FetchIssued ==
  /\ Len(ops') = Len(ops) + 1
  /\ ops'[Len(ops')].kind = "fetch"

\* C27: in every reachable state the loading flag is true exactly when the
\* most recently issued fetch is still pending: a superseded fetch that
\* resolves or fails while a newer fetch is pending neither clears the flag
\* nor sets last-error, create/update/delete never change the flag, and if
\* every issued fetch eventually resolves the flag is eventually false.
C27_LoadingIffLatestFetchPending ==
  /\ [](isLoading <=> LatestFetchPending)
  /\ [][(last'.kind = "fetch" /\ last'.op.aborted)
          => (isLoading' = isLoading /\ error' = error)]_vars
  /\ [][isLoading' # isLoading
          => IF isLoading' THEN FetchIssued
             ELSE last'.kind = "fetch" /\ ~last'.op.aborted]_vars
  /\ (isLoading ~> ~isLoading)

\* a superseded fetch has just been rejected while the newer fetch is pending
C27_Witness ==
  /\ Ended("fetch", "fail") /\ last.op.aborted
  /\ isLoading /\ LatestFetchPending
  /\ error = Null

\* C28: in every reachable state no two entries of the in-memory collection
\* share an id, for every interleaving of fetchForWeek, createBlock,
\* updateBlock and deleteBlock requests and responses (a delete that fails
\* after a fetch has replaced the collection and two creates issued in the
\* same millisecond included).
C28_NoTwoEntriesShareAnId ==
  \A i \in 1..Len(blocks), j \in 1..Len(blocks) :
    i # j => blocks[i].id # blocks[j].id

\* C30: the block form is closed only after a successful save: when the user
\* submits and the create or update request fails, the form stays open
\* showing a submit error and keeps the entered values; the close callback is
\* never invoked on a failed save.
C30_FormStaysOpenOnFailedSave ==
  (Ended("create", "fail") \/ Ended("update", "fail")) =>
    /\ form.isOpen
    /\ form.submitError
    /\ form.formData = last.op.data
    /\ ~form.onCancel

====
